---- MODULE Spec2Model ----
(***************************************************************************)
(* A model of uuidv7-js: the clock-driven UUIDv7 generator (UUIDv7.gen),   *)
(* the custom-timestamp generator (TimestampUUIDv7.gen), genMany, and the  *)
(* base-N encoder / decoder with the validator.                            *)
(*                                                                         *)
(* The source computes on 128-bit BigInts and on JS numbers up to 2^48.    *)
(* Those do not fit a machine integer, so a number is modelled at its real *)
(* width as a little-endian sequence of 16-bit limbs with no high zero     *)
(* limb (<<>> is 0).  The number -1, the initial value of #lastTimestamp   *)
(* and #lastUUID, is the one-limb sequence <<-1>>.  A string is a sequence *)
(* of one-character strings.                                               *)
(***************************************************************************)
EXTENDS Integers, Sequences, FiniteSets, TLC

----------------------------------------------------------------------------
(* Arbitrary-precision integers (JS BigInt, and JS numbers below 2^53).    *)

Base == 2^16

MinusOne == <<-1>>

\* A field declared without an initialiser (#lastRandA, #lastRandB).
Undefined == <<-2>>

IsNeg(a) == Len(a) > 0 /\ a[Len(a)] < 0

RECURSIVE Norm(_)
Norm(a) == IF Len(a) > 0 /\ a[Len(a)] = 0 THEN Norm(SubSeq(a, 1, Len(a) - 1)) ELSE a

RECURSIVE BigOfNat(_)
BigOfNat(n) == IF n = 0 THEN <<>> ELSE <<n % Base>> \o BigOfNat(n \div Base)

Limb(a, i) == IF i <= Len(a) THEN a[i] ELSE 0

MaxOf(x, y) == IF x >= y THEN x ELSE y

\* a + b for non-negative a, b.
RECURSIVE AddFrom(_, _, _, _)
AddFrom(a, b, i, carry) ==
    IF i > MaxOf(Len(a), Len(b))
    THEN (IF carry = 0 THEN <<>> ELSE <<carry>>)
    ELSE LET s == Limb(a, i) + Limb(b, i) + carry
         IN  <<s % Base>> \o AddFrom(a, b, i + 1, s \div Base)

BigAdd(a, b) == AddFrom(a, b, 1, 0)

\* a * m + c for non-negative a and small m, c.
RECURSIVE MulAddFrom(_, _, _, _)
MulAddFrom(a, m, i, carry) ==
    IF i > Len(a)
    THEN BigOfNat(carry)
    ELSE LET s == a[i] * m + carry
         IN  <<s % Base>> \o MulAddFrom(a, m, i + 1, s \div Base)

BigMulAdd(a, m, c) == Norm(MulAddFrom(a, m, 1, c))

\* Comparison of two non-negative numbers from the most significant limb.
RECURSIVE NatLtFrom(_, _, _)
NatLtFrom(a, b, i) ==
    IF i = 0 THEN FALSE
    ELSE IF a[i] # b[i] THEN a[i] < b[i]
    ELSE NatLtFrom(a, b, i - 1)

NatLt(a, b) ==
    IF Len(a) # Len(b) THEN Len(a) < Len(b) ELSE NatLtFrom(a, b, Len(a))

BigLt(a, b) ==
    IF IsNeg(a) THEN ~IsNeg(b)
    ELSE IF IsNeg(b) THEN FALSE
    ELSE NatLt(a, b)

BigLe(a, b) == a = b \/ BigLt(a, b)

\* Quotient and remainder of a by a small d, from the most significant limb.
RECURSIVE DivModFrom(_, _, _, _)
DivModFrom(a, d, i, rem) ==
    IF i = 0 THEN [q |-> <<>>, r |-> rem]
    ELSE LET cur  == rem * Base + a[i]
             rest == DivModFrom(a, d, i - 1, cur % d)
         IN  [q |-> Append(rest.q, cur \div d), r |-> rest.r]

BigDivMod(a, d) ==
    LET x == DivModFrom(a, d, Len(a), 0) IN [q |-> Norm(x.q), r |-> x.r]

\* Bitwise operations on one limb.
RECURSIVE BitOr(_, _)
BitOr(x, y) ==
    IF x = 0 THEN y ELSE IF y = 0 THEN x
    ELSE MaxOf(x % 2, y % 2) + 2 * BitOr(x \div 2, y \div 2)

RECURSIVE BitAnd(_, _)
BitAnd(x, y) ==
    IF x = 0 \/ y = 0 THEN 0
    ELSE (x % 2) * (y % 2) + 2 * BitAnd(x \div 2, y \div 2)

RECURSIVE OrFrom(_, _, _)
OrFrom(a, b, i) ==
    IF i > MaxOf(Len(a), Len(b)) THEN <<>>
    ELSE <<BitOr(Limb(a, i), Limb(b, i))>> \o OrFrom(a, b, i + 1)

BigOr(a, b) == OrFrom(a, b, 1)

RECURSIVE AndFrom(_, _, _)
AndFrom(a, b, i) ==
    IF i > MaxOf(Len(a), Len(b)) THEN <<>>
    ELSE <<BitAnd(Limb(a, i), Limb(b, i))>> \o AndFrom(a, b, i + 1)

BigAnd(a, b) == Norm(AndFrom(a, b, 1))

\* a << bits, for a non-negative a.
BigShl(a, bits) ==
    IF a = <<>> THEN <<>>
    ELSE [i \in 1..(bits \div 16) |-> 0] \o BigMulAdd(a, 2^(bits % 16), 0)

\* 2^bits - 1.
RECURSIVE BigSub1(_)
BigSub1(a) ==
    IF a[1] > 0 THEN Norm(<<a[1] - 1>> \o Tail(a))
    ELSE Norm(<<Base - 1>> \o BigSub1(Tail(a)))

BigOnes(bits) == BigSub1(BigShl(<<1>>, bits))

\* 2n ** 62n - 1n, 2 ** 12 - 1 and 2 ** 48 - 1
MaxRandB == BigOnes(62)
MaxRandA == BigOnes(12)
MaxTimestamp == BigOnes(48)

----------------------------------------------------------------------------
(* Strings: sequences of one-character strings.                            *)

HexDigits == <<"0", "1", "2", "3", "4", "5", "6", "7",
               "8", "9", "a", "b", "c", "d", "e", "f">>

UpperHexDigits == <<"0", "1", "2", "3", "4", "5", "6", "7",
                    "8", "9", "A", "B", "C", "D", "E", "F">>

IsHexChar(c) == \E i \in 1..16 : HexDigits[i] = c \/ UpperHexDigits[i] = c

HexVal(c) == (CHOOSE i \in 1..16 : HexDigits[i] = c \/ UpperHexDigits[i] = c) - 1

Rep(c, n) == [i \in 1..n |-> c]

\* String.prototype.substring(from, to) and substring(from), 0-based,
\* with the end clamped to the length.
substring(s, from, to) ==
    LET e == IF to > Len(s) THEN Len(s) ELSE to
    IN  IF from >= e THEN <<>> ELSE SubSeq(s, from + 1, e)

substringFrom(s, from) == substring(s, from, Len(s))

\* String.prototype.padStart(n, c).
padStart(s, n, c) == IF Len(s) >= n THEN s ELSE Rep(c, n - Len(s)) \o s

\* id.replace(/-/g, "").
RemoveHyphens(s) == SelectSeq(s, LAMBDA c : c # "-")

\* id.replace("-", ""): only the first hyphen is removed.
RECURSIVE RemoveFirstHyphen(_)
RemoveFirstHyphen(s) ==
    IF s = <<>> THEN <<>>
    ELSE IF Head(s) = "-" THEN Tail(s)
    ELSE <<Head(s)>> \o RemoveFirstHyphen(Tail(s))

\* BigInt.prototype.toString(16): lowercase, no leading zeros, "0" for 0.
LimbHex(x) == << HexDigits[(x \div 4096) + 1], HexDigits[((x \div 256) % 16) + 1],
                 HexDigits[((x \div 16) % 16) + 1], HexDigits[(x % 16) + 1] >>

RECURSIVE AllLimbsHex(_)
AllLimbsHex(a) ==
    IF a = <<>> THEN <<>> ELSE AllLimbsHex(Tail(a)) \o LimbHex(Head(a))

RECURSIVE StripZeros(_)
StripZeros(s) ==
    IF Len(s) > 1 /\ Head(s) = "0" THEN StripZeros(Tail(s)) ELSE s

toString16(a) ==
    IF a = <<>> THEN <<"0">>
    ELSE IF IsNeg(a) THEN <<"-">> \o StripZeros(AllLimbsHex(<<0 - a[1]>>))
    ELSE StripZeros(AllLimbsHex(a))

\* parseInt(s, 16) and BigInt("0x" + s) for a string s of hex digits: every
\* group of four digits, taken from the right, is one limb.
Hex4(s) ==
    IF Len(s) = 0 THEN 0
    ELSE IF Len(s) = 1 THEN HexVal(s[1])
    ELSE IF Len(s) = 2 THEN HexVal(s[1]) * 16 + HexVal(s[2])
    ELSE IF Len(s) = 3 THEN HexVal(s[1]) * 256 + HexVal(s[2]) * 16 + HexVal(s[3])
    ELSE HexVal(s[1]) * 4096 + HexVal(s[2]) * 256 + HexVal(s[3]) * 16 + HexVal(s[4])

RECURSIVE HexLimbs(_)
HexLimbs(s) ==
    IF Len(s) <= 4 THEN <<Hex4(s)>>
    ELSE <<Hex4(SubSeq(s, Len(s) - 3, Len(s)))>> \o HexLimbs(SubSeq(s, 1, Len(s) - 4))

parseInt16(s) == Norm(HexLimbs(s))

\* utils.addHyphens
addHyphens(id) ==
    substring(id, 0, 8) \o <<"-">> \o substring(id, 8, 12) \o <<"-">> \o
    substring(id, 12, 16) \o <<"-">> \o substring(id, 16, 20) \o <<"-">> \o
    substringFrom(id, 20)

\* Variant: the hexadecimal digits without the padding to 32.
CanonicalUnpadded(uuid) == addHyphens(toString16(uuid))

\* uuid.toString(16).padStart(32, "0") with the hyphens added.
Canonical(uuid) == addHyphens(padStart(toString16(uuid), 32, "0"))

\* The UTF-16 code unit of a character of an identifier string.
CodeUnit(c) ==
    IF c = "-" THEN 45
    ELSE IF HexVal(c) < 10 THEN 48 + HexVal(c)
    ELSE 87 + HexVal(c)

\* s < t and s <= t on strings: the first code unit that differs decides,
\* and a proper prefix is smaller.
StringLt(s, t) ==
    LET m == IF Len(s) < Len(t) THEN Len(s) ELSE Len(t)
        diff == {i \in 1..m : s[i] # t[i]}
    IN  IF diff = {}
        THEN Len(s) < Len(t)
        ELSE LET i == CHOOSE k \in diff : \A l \in diff : k <= l
             IN  CodeUnit(s[i]) < CodeUnit(t[i])

StringLe(s, t) == s = t \/ StringLt(s, t)

\* Variant: the regular expression without the upper-case letters.
isValidLowercase(id) ==
    /\ Len(id) = 36
    /\ \A i \in 1..36 :
          IF i \in {9, 14, 19, 24} THEN id[i] = "-"
          ELSE IF i = 15 THEN id[i] = "7"
          ELSE IF i = 20 THEN id[i] \in {"8", "9", "a", "b"}
          ELSE \E k \in 1..16 : HexDigits[k] = id[i]

\* UUIDv7.isValid: the regular expression
\* ^[0-9a-fA-F]{8}-[0-9a-fA-F]{4}-7[0-9a-fA-F]{3}-[89abAB][0-9a-fA-F]{3}-[0-9a-fA-F]{12}$
isValid(id) ==
    /\ Len(id) = 36
    /\ \A i \in 1..36 :
          IF i \in {9, 14, 19, 24} THEN id[i] = "-"
          ELSE IF i = 15 THEN id[i] = "7"
          ELSE IF i = 20 THEN id[i] \in {"8", "9", "a", "b", "A", "B"}
          ELSE IsHexChar(id[i])

\* UUIDv7.timestamp; Null when the id is not valid.
Null == <<-3>>

\* Variant: id.slice(0, 12), which loses the last digit of the timestamp.
timestampSlice12(id) ==
    IF ~isValid(id) THEN Null
    ELSE parseInt16(RemoveFirstHyphen(substring(id, 0, 12)))

timestamp(id) ==
    IF ~isValid(id) THEN Null
    ELSE parseInt16(RemoveFirstHyphen(substring(id, 0, 13)))

\* UUIDv7.date; Null when the id is not valid.  A Date is modelled by its time
\* value, the number of milliseconds new Date(ms) is given.
date(id) ==
    IF ~isValid(id) THEN Null
    ELSE timestamp(id)

----------------------------------------------------------------------------
(* Bit layout and the random source.                                       *)

\* Variant: the timestamp shifted by 76 bits, not 80.
PackShift76(ts, randA, randB) ==
    LET u1 == BigShl(ts, 76)
        u2 == BigOr(u1, BigShl(<<7>>, 76))
        u3 == BigOr(u2, BigShl(randA, 64))
        u4 == BigOr(u3, BigShl(<<2>>, 62))
    IN  BigOr(u4, randB)

\* The packing both generators perform before they store their state.
Pack(ts, randA, randB) ==
    LET u1 == BigShl(ts, 80)
        u2 == BigOr(u1, BigShl(<<7>>, 76))
        u3 == BigOr(u2, BigShl(randA, 64))
        u4 == BigOr(u3, BigShl(<<2>>, 62))
    IN  BigOr(u4, randB)

\* utils.genRandParts, as a function of the string crypto.randomUUID() returned.
genRandParts(v4) ==
    [ randA |-> parseInt16(substring(v4, 15, 18)),
      randB |-> BigAnd(parseInt16(RemoveHyphens(v4)), BigOnes(62)) ]

\* Variant: the drawn value without the 1 added.
IncrementFromZero(u) == u

\* BigInt(crypto.getRandomValues(new Uint32Array(1))[0] + 1) for a drawn u.
Increment(u) == BigAdd(u, <<1>>)

\* A version-4 UUID string whose rand_a digits are ra (3 hex digits) and whose
\* last 16 digits are rb (the first of them one of 8, 9, a, b).
MkV4(ra, rb) ==
    Rep("0", 8) \o <<"-">> \o Rep("0", 4) \o <<"-", "4">> \o ra \o <<"-">> \o
    SubSeq(rb, 1, 4) \o <<"-">> \o SubSeq(rb, 5, 16)

----------------------------------------------------------------------------
(* Bounds and the values the environment supplies.                         *)

\* The number of identifiers one behaviour generates when it uses one of the
\* two generators only, and when it uses both.
MaxCalls == 3
MaxMixed == 2

\* Date.now() returns 0..MaxClock or 2^48 - 1, in any order.
MaxClock == 0

\* genMany is called with an amount in -1..MaxAmount.
MaxAmount == 2

ClockValues == {BigOfNat(i) : i \in 0..MaxClock} \cup {MaxTimestamp}

\* Custom timestamps: the clock values, -1 and 2^48.
CustomTimestamps == ClockValues \cup {MinusOne, BigShl(<<1>>, 48)}

AmountValues == (0 - 1)..MaxAmount

\* Results of crypto.randomUUID(): all random bits clear; rand_a one below its
\* maximum and rand_b one below its maximum; all random bits set.
RandomUUIDs ==
    { MkV4(<<"0", "0", "0">>, <<"8">> \o Rep("0", 15)),
      MkV4(<<"f", "f", "e">>, <<"b">> \o Rep("f", 14) \o <<"e">>),
      MkV4(<<"f", "f", "f">>, <<"b">> \o Rep("f", 15)) }

\* Results of crypto.getRandomValues(new Uint32Array(1))[0]: 0 and 2^32 - 1.
RandomU32s == {<<>>, BigOnes(32)}

\* What genRandParts returns for those.
RandomParts == {genRandParts(v4) : v4 \in RandomUUIDs}

----------------------------------------------------------------------------
(* State.                                                                  *)

VARIABLES
    lastTimestamp,    \* UUIDv7.#lastTimestamp
    lastRandA,        \* UUIDv7.#lastRandA
    lastRandB,        \* UUIDv7.#lastRandB
    lastUUID,         \* UUIDv7.#lastUUID
    tsLastTimestamp,  \* TimestampUUIDv7.#lastTimestamp
    tsLastRandA,      \* TimestampUUIDv7.#lastRandA
    tsLastRandB,      \* TimestampUUIDv7.#lastRandB
    pc,               \* "idle", or where the running call is: "gen", "genTs"
    uuid,             \* the local uuid of the running gen()
    amount,           \* the amount argument of the running or last call (1 for gen)
    custom,           \* its customTimestamp argument, Undefined when not given
    batch,            \* the identifiers the running call has generated
    now,              \* the last value Date.now() returned
    randInc,          \* the increment the last attempt of the running gen drew (0: none)
    ret,              \* what the last finished call returned or threw
    emitted,          \* history: every identifier a gen call returned
    alphabet,         \* UUIDv7.#encodeAlphabet
    codecCall,        \* the last constructor, encode or decode call and its argument
    racer             \* a second caller of gen(): where its call is, its local
                      \* uuid, and whether the two calls have interleaved

genState == <<lastTimestamp, lastRandA, lastRandB, lastUUID>>
tsState == <<tsLastTimestamp, tsLastRandA, tsLastRandB>>
callState == <<pc, uuid, amount, custom, batch>>
codecState == <<alphabet, codecCall>>
vars == <<lastTimestamp, lastRandA, lastRandB, lastUUID,
          tsLastTimestamp, tsLastRandA, tsLastRandB,
          pc, uuid, amount, custom, batch, now, randInc, ret, emitted,
          alphabet, codecCall, racer>>

NoReturn == [kind |-> "none", ids |-> <<>>, err |-> ""]
Returned(k, ids) == [kind |-> k, ids |-> ids, err |-> ""]
Thrown(msg) == [kind |-> "error", ids |-> <<>>, err |-> msg]

\* The Base58 alphabet new UUIDv7() uses when it is given none.
Base58 ==
    << "1", "2", "3", "4", "5", "6", "7", "8", "9",
       "A", "B", "C", "D", "E", "F", "G", "H", "J", "K", "L", "M", "N", "P", "Q",
       "R", "S", "T", "U", "V", "W", "X", "Y", "Z",
       "a", "b", "c", "d", "e", "f", "g", "h", "i", "j", "k", "m", "n", "o", "p",
       "q", "r", "s", "t", "u", "v", "w", "x", "y", "z" >>

NoCall == [op |-> "none", arg |-> <<>>]

Init ==
    /\ alphabet = Base58
    /\ codecCall = NoCall
    /\ lastTimestamp = MinusOne
    /\ lastRandA = Undefined
    /\ lastRandB = Undefined
    /\ lastUUID = MinusOne
    /\ tsLastTimestamp = MinusOne
    /\ tsLastRandA = Undefined
    /\ tsLastRandB = Undefined
    /\ pc = "idle"
    /\ uuid = MinusOne
    /\ amount = 1
    /\ custom = Undefined
    /\ batch = <<>>
    /\ now = <<>>
    /\ randInc = <<>>
    /\ ret = NoReturn
    /\ emitted = <<>>
    /\ racer = [pc |-> "idle", uuid |-> MinusOne, interleaved |-> FALSE]

----------------------------------------------------------------------------
(* The decisions of the two generators.                                    *)

\* Variant: the loop test written with > for >=.
KeepLoopingStrict(last, u) == BigLt(u, last)

\* while (this.#lastUUID >= uuid)
KeepLooping(last, u) == BigLe(u, last)

\* Variant: the clock is never taken to be ahead.
NeverAhead(t, last) == FALSE

\* timestamp > this.#lastTimestamp
IsAhead(t, last) == BigLt(last, t)

\* Variant: the clock is never taken to have gone backwards.
NeverBehind(t, last) == FALSE

\* timestamp < this.#lastTimestamp
IsBehind(t, last) == BigLt(t, last)

\* Variant: rand_b is taken to be 64 bits wide.
RandBOverflows64(randB) == BigLt(BigOnes(64), randB)

\* randB > 2n ** 62n - 1n
RandBOverflows(randB) == BigLt(MaxRandB, randB)

\* Variant: the limit of rand_a written as 2 ** 12.
RandAOverflowsOffByOne(randA) == BigLt(BigShl(<<1>>, 12), randA)

\* randA > 2 ** 12 - 1
RandAOverflows(randA) == BigLt(MaxRandA, randA)

\* Variant: the upper limit written as 2 ** 48.
BadTimestampOffByOne(ts) == IsNeg(ts) \/ BigLt(BigShl(<<1>>, 48), ts)

\* timestamp < 0 || timestamp > 2 ** 48 - 1
BadTimestamp(ts) == IsNeg(ts) \/ BigLt(MaxTimestamp, ts)

\* Variant: on overflow rand_b keeps the low 62 bits of the sum.
TsPartsWrapping(ts, newParts, u) ==
    IF ts # tsLastTimestamp
    THEN newParts
    ELSE LET inc == BigAdd(tsLastRandB, Increment(u))
             a1 == BigAdd(tsLastRandA, <<1>>)
         IN  IF RandBOverflows(inc)
             THEN [ randA |-> IF RandAOverflows(a1) THEN newParts.randA ELSE a1,
                    randB |-> BigAnd(inc, MaxRandB) ]
             ELSE [ randA |-> tsLastRandA, randB |-> inc ]

\* Variant: TimestampUUIDv7.gen continuing from the fields of the clock-driven
\* generator.
TsPartsShared(ts, newParts, u) ==
    IF ts # lastTimestamp
    THEN newParts
    ELSE LET inc == BigAdd(lastRandB, Increment(u))
             a1 == BigAdd(lastRandA, <<1>>)
         IN  IF RandBOverflows(inc)
             THEN [ randA |-> IF RandAOverflows(a1) THEN newParts.randA ELSE a1,
                    randB |-> newParts.randB ]
             ELSE [ randA |-> lastRandA, randB |-> inc ]

\* The rand_a and rand_b TimestampUUIDv7.gen uses for a valid timestamp ts,
\* when genRandParts() would return parts and getRandomValues would return u.
TsParts(ts, newParts, u) ==
    IF ts # tsLastTimestamp
    THEN newParts
    ELSE LET inc == BigAdd(tsLastRandB, Increment(u))
             a1 == BigAdd(tsLastRandA, <<1>>)
         IN  IF RandBOverflows(inc)
             THEN [ randA |-> IF RandAOverflows(a1) THEN newParts.randA ELSE a1,
                    randB |-> newParts.randB ]
             ELSE [ randA |-> tsLastRandA, randB |-> inc ]

----------------------------------------------------------------------------
(* Calls.  A call that needs the clock runs in steps, one per evaluation   *)
(* of the loop test of gen(); every other call is one step.                *)

GenPcs == {"gen", "manyGen"}

\* Variant: the amount test written with < for <=.
BadAmountStrict(n) == n < 0

\* amount <= 0
BadAmount(n) == n <= 0

\* Array.from({ length: n }, ...) has its n elements.
BatchComplete(b, n) == Len(b) >= n

\* One gen call of the running operation returns id.  The operation returns
\* when it has the n identifiers it was asked for, else it goes on at contPc.
Deliver(kind, n, id, entry, contPc) ==
    LET b == Append(batch, id)
    IN  /\ emitted' = Append(emitted, entry)
        /\ IF BatchComplete(b, n)
           THEN /\ pc' = "idle"
                /\ batch' = <<>>
                /\ ret' = Returned(kind, b)
           ELSE /\ pc' = contPc
                /\ batch' = b
                /\ UNCHANGED ret

\* UUIDv7.gen() without a custom timestamp is called: let uuid = this.#lastUUID.
gen(limit) ==
    /\ pc = "idle"
    /\ UNCHANGED racer
    /\ UNCHANGED codecState
    /\ Len(emitted) < limit
    /\ pc' = "gen"
    /\ uuid' = lastUUID
    /\ amount' = 1
    /\ custom' = Undefined
    /\ randInc' = <<>>
    /\ UNCHANGED <<genState, tsState, batch, now, ret, emitted>>

\* The assignments that end an iteration of the loop of gen().
Commit(t, randA, randB) ==
    /\ uuid' = Pack(t, randA, randB)
    /\ lastRandA' = randA
    /\ lastRandB' = randB
    /\ lastTimestamp' = t
    /\ UNCHANGED <<lastUUID, tsState, pc, amount, custom, batch, ret, emitted>>

\* An iteration that finds the clock ahead of the stored timestamp.
AttemptAhead ==
    /\ pc \in GenPcs
    /\ UNCHANGED racer
    /\ UNCHANGED codecState
    /\ KeepLooping(lastUUID, uuid)
    /\ \E t \in ClockValues, parts \in RandomParts :
          /\ IsAhead(t, lastTimestamp)
          /\ now' = t
          /\ randInc' = <<>>
          /\ Commit(t, parts.randA, parts.randB)

\* An iteration that finds the clock behind the stored timestamp: continue.
AttemptBehind ==
    /\ pc \in GenPcs
    /\ UNCHANGED racer
    /\ UNCHANGED codecState
    /\ KeepLooping(lastUUID, uuid)
    /\ \E t \in ClockValues :
          /\ ~IsAhead(t, lastTimestamp)
          /\ IsBehind(t, lastTimestamp)
          /\ now' = t
          /\ randInc' = <<>>
          /\ UNCHANGED <<genState, tsState, callState, ret, emitted>>

\* An iteration that finds the clock at the stored timestamp.
AttemptSame ==
    /\ pc \in GenPcs
    /\ UNCHANGED racer
    /\ UNCHANGED codecState
    /\ KeepLooping(lastUUID, uuid)
    /\ \E t \in ClockValues, u \in RandomU32s, parts \in RandomParts :
          /\ ~IsAhead(t, lastTimestamp)
          /\ ~IsBehind(t, lastTimestamp)
          /\ now' = t
          /\ randInc' = Increment(u)
          /\ IF lastRandB = Undefined
             THEN \* undefined + BigInt throws a TypeError
                  /\ pc' = "idle"
                  /\ ret' = Thrown("TypeError")
                  /\ batch' = <<>>
                  /\ UNCHANGED <<genState, tsState, uuid, amount, custom, emitted>>
             ELSE LET inc == BigAdd(lastRandB, Increment(u))
                      a1 == BigAdd(lastRandA, <<1>>)
                  IN  IF ~RandBOverflows(inc)
                      THEN Commit(t, lastRandA, inc)
                      ELSE IF RandAOverflows(a1)
                      THEN \* both counters have overflowed: continue
                           UNCHANGED <<genState, tsState, callState, ret, emitted>>
                      ELSE Commit(t, a1, parts.randB)

\* The loop test of gen() fails, as a step of its own: the loop is left and
\* this.#lastUUID = uuid comes next.
LoopEnds ==
    /\ pc = "gen"
    /\ ~KeepLooping(lastUUID, uuid)
    /\ pc' = "exit"
    /\ UNCHANGED <<genState, tsState, uuid, amount, custom, batch, now, randInc,
                   ret, emitted, codecState, racer>>

\* this.#lastUUID = uuid and the return of gen(), after the loop was left.
ReturnAfterLoop ==
    /\ pc = "exit"
    /\ lastUUID' = uuid
    /\ LET id == Canonical(uuid)
       IN  Deliver("id", 1, id,
                   [custom |-> FALSE, ts |-> timestamp(id), uuid |-> uuid, id |-> id],
                   "exit")
    /\ randInc' = <<>>
    /\ UNCHANGED <<lastTimestamp, lastRandA, lastRandB, tsState, uuid, amount,
                   custom, now, codecState, racer>>

\* The caller that runs gen() is suspended where it is, before an evaluation
\* of the loop test or before this.#lastUUID = uuid, and the other caller
\* runs from where it was.
Switch ==
    /\ pc \in {"idle", "gen", "exit"}
    /\ pc' = racer.pc
    /\ uuid' = racer.uuid
    /\ racer' = [pc |-> pc, uuid |-> uuid,
                 interleaved |-> racer.interleaved \/ pc # "idle"]
    /\ UNCHANGED <<genState, tsState, amount, custom, batch, now, randInc, ret,
                   emitted, codecState>>

\* The loop test fails: this.#lastUUID = uuid and the identifier is returned.
\* Inside genMany the next gen() starts with let uuid = this.#lastUUID.
GenReturn ==
    /\ pc \in GenPcs
    /\ UNCHANGED racer
    /\ UNCHANGED codecState
    /\ ~KeepLooping(lastUUID, uuid)
    /\ lastUUID' = uuid
    /\ LET id == Canonical(uuid)
       IN  Deliver(IF pc = "gen" THEN "id" ELSE "ids", amount, id,
                   [custom |-> FALSE, ts |-> now, uuid |-> uuid, id |-> id], pc)
    /\ randInc' = <<>>
    /\ UNCHANGED <<lastTimestamp, lastRandA, lastRandB, tsState, uuid, amount,
                   custom, now>>

\* TimestampUUIDv7.gen(ts), for a call that returns n identifiers in all.
TimestampGen(kind, n, ts) ==
    IF BadTimestamp(ts)
    THEN /\ pc' = "idle"
         /\ ret' = Thrown("gen")
         /\ batch' = <<>>
         /\ randInc' = <<>>
         /\ UNCHANGED <<tsState, emitted>>
    ELSE \E drawn \in RandomParts, u \in RandomU32s :
            LET parts == TsParts(ts, drawn, u)
                value == Pack(ts, parts.randA, parts.randB)
                id    == Canonical(value)
            IN  /\ randInc' = (IF ts # tsLastTimestamp THEN <<>> ELSE Increment(u))
                /\ tsLastRandA' = parts.randA
                /\ tsLastRandB' = parts.randB
                /\ tsLastTimestamp' = ts
                /\ Deliver(kind, n, id,
                           [custom |-> TRUE, ts |-> ts, uuid |-> value, id |-> id],
                           "manyTs")

\* UUIDv7.gen(customTimestamp)
genTs(limit) ==
    /\ pc = "idle"
    /\ UNCHANGED racer
    /\ UNCHANGED codecState
    /\ Len(emitted) < limit
    /\ \E ts \in CustomTimestamps :
          /\ amount' = 1
          /\ custom' = ts
          /\ TimestampGen("id", 1, ts)
    /\ UNCHANGED <<genState, uuid, now>>

\* UUIDv7.genMany(amount, customTimestamp): the check of the amount and the
\* start of the first gen call.
genMany(limit, customs) ==
    /\ pc = "idle"
    /\ UNCHANGED racer
    /\ UNCHANGED codecState
    /\ \E n \in AmountValues, c \in customs :
          /\ amount' = n
          /\ custom' = c
          /\ randInc' = <<>>
          /\ IF BadAmount(n)
             THEN /\ ret' = Thrown("genMany")
                  /\ UNCHANGED <<genState, tsState, pc, uuid, batch, now, emitted>>
             ELSE IF n = 0
             THEN \* Array.from({ length: 0 }, ...) is the empty array
                  /\ ret' = Returned("ids", <<>>)
                  /\ UNCHANGED <<genState, tsState, pc, uuid, batch, now, emitted>>
             ELSE /\ Len(emitted) + n <= limit
                  /\ IF c = Undefined
                     THEN pc' = "manyGen" /\ uuid' = lastUUID
                     ELSE pc' = "manyTs" /\ UNCHANGED uuid
                  /\ UNCHANGED <<genState, tsState, batch, now, ret, emitted>>

\* One gen(customTimestamp) call of a running genMany.
GenManyTs ==
    /\ pc = "manyTs"
    /\ UNCHANGED racer
    /\ UNCHANGED codecState
    /\ TimestampGen("ids", amount, custom)
    /\ UNCHANGED <<genState, uuid, amount, custom, now>>

----------------------------------------------------------------------------
(* The constructor, encode and decode.                                     *)

Range(f) == {f[i] : i \in 1..Len(f)}

\* if (opts?.encodeAlphabet): an alphabet was given and is not the empty string.
Truthy(arg) == arg.given /\ Len(arg.alphabet) > 0

\* encodeAlphabet.length < 16 || encodeAlphabet.length > 64
BadLength(a) == Len(a) < 16 \/ Len(a) > 64

\* new Set(encodeAlphabet).size !== encodeAlphabet.length
HasDuplicates(a) == Cardinality(Range(a)) # Len(a)

\* opts?.encodeAlphabet ?? the Base58 alphabet
ChosenAlphabet(arg) == IF arg.given THEN arg.alphabet ELSE Base58

\* String.prototype.indexOf for one character.
IndexOf(a, c) ==
    IF \E i \in 1..Len(a) : a[i] = c
    THEN (CHOOSE i \in 1..Len(a) : a[i] = c /\ \A j \in 1..(i - 1) : a[j] # c) - 1
    ELSE 0 - 1

\* The loop of encode with the symbol appended instead of prepended.
RECURSIVE EncodeLoopAppending(_, _, _)
EncodeLoopAppending(n, a, encoded) ==
    IF ~BigLt(<<>>, n) THEN encoded
    ELSE LET dm == BigDivMod(n, Len(a))
             next == encoded \o <<a[dm.r + 1]>>
         IN  IF Len(next) > 0 THEN EncodeLoopAppending(dm.q, a, next) ELSE next

\* The loop of encode: while (n > 0n).  (The test on the new string makes
\* the evaluation of each pass finish before the next pass starts.)
RECURSIVE EncodeLoop(_, _, _)
EncodeLoop(n, a, encoded) ==
    IF ~BigLt(<<>>, n) THEN encoded
    ELSE LET dm == BigDivMod(n, Len(a))
             next == <<a[dm.r + 1]>> \o encoded
         IN  IF Len(next) > 0 THEN EncodeLoop(dm.q, a, next) ELSE next

\* Variant: the numeral padded with the first symbol to a fixed width.
encodePadded(a, id) ==
    IF ~isValid(id) THEN Thrown("encode: not a valid UUIDv7")
    ELSE IF Len(a) = 0 THEN Thrown("encode: Division by zero")
    ELSE Returned("encoded",
                  <<padStart(EncodeLoop(parseInt16(RemoveHyphens(id)), a, <<>>), 32, a[1])>>)

\* UUIDv7.encode with the alphabet a.
encode(a, id) ==
    IF ~isValid(id) THEN Thrown("encode: not a valid UUIDv7")
    ELSE IF Len(a) = 0 THEN Thrown("encode: Division by zero")
    ELSE Returned("encoded", <<EncodeLoop(parseInt16(RemoveHyphens(id)), a, <<>>)>>)

\* The loop of decodeOrThrow from the 0-based index i: the accumulated n, and
\* the index of the first character that is not in the alphabet, or -1.  (The
\* test on the new n makes the evaluation of each pass finish before the next.)
RECURSIVE DecodeLoop(_, _, _, _)
DecodeLoop(s, i, n, a) ==
    IF i >= Len(s) THEN [bad |-> 0 - 1, n |-> n]
    ELSE LET charIdx == IndexOf(a, s[i + 1])
             next == BigMulAdd(n, Len(a), charIdx)
         IN  IF charIdx < 0 THEN [bad |-> i, n |-> n]
             ELSE IF Len(next) >= 0 THEN DecodeLoop(s, i + 1, next, a)
             ELSE [bad |-> i, n |-> next]

\* decodeOrThrow without the validation of the decoded string.
decodeOrThrowUnchecked(a, s) ==
    LET r == DecodeLoop(s, 0, <<>>, a)
    IN  IF r.bad >= 0 THEN Thrown("decode: invalid character")
        ELSE Returned("decoded", <<Canonical(r.n)>>)

\* UUIDv7.decodeOrThrow with the alphabet a.
decodeOrThrow(a, s) ==
    LET r == DecodeLoop(s, 0, <<>>, a)
        decoded == Canonical(r.n)
    IN  IF r.bad >= 0 THEN Thrown("decode: invalid character")
        ELSE IF ~isValid(decoded) THEN Thrown("decode: not a valid UUIDv7")
        ELSE Returned("decoded", <<decoded>>)

\* UUIDv7.decode with the alphabet a: null when decodeOrThrow throws.
decode(a, s) ==
    LET r == decodeOrThrow(a, s)
    IN  IF r.kind = "error" THEN Returned("null", <<>>) ELSE r

\* String.prototype.toUpperCase and toLowerCase, on hex digits and hyphens.
UpperChar(c) == IF \E i \in 1..16 : HexDigits[i] = c
                THEN UpperHexDigits[CHOOSE i \in 1..16 : HexDigits[i] = c] ELSE c
LowerChar(c) == IF \E i \in 1..16 : UpperHexDigits[i] = c
                THEN HexDigits[CHOOSE i \in 1..16 : UpperHexDigits[i] = c] ELSE c
toUpperCase(s) == [i \in 1..Len(s) |-> UpperChar(s[i])]
toLowerCase(s) == [i \in 1..Len(s) |-> LowerChar(s[i])]

\* Alphabets up to this many symbols are given to the constructor.
MaxAlphabetLen == 66

\* Distinct symbols, the first 64 the base64url alphabet.
SymbolPool ==
    << "A", "B", "C", "D", "E", "F", "G", "H", "I", "J", "K", "L", "M", "N", "O", "P",
       "Q", "R", "S", "T", "U", "V", "W", "X", "Y", "Z", "a", "b", "c", "d", "e", "f",
       "g", "h", "i", "j", "k", "l", "m", "n", "o", "p", "q", "r", "s", "t", "u", "v",
       "w", "x", "y", "z", "0", "1", "2", "3", "4", "5", "6", "7", "8", "9", "-", "_",
       "!", "#", "$", "%", "&", "*", "+", "." >>

\* The Crockford Base32 alphabet.
Crockford32 ==
    << "0", "1", "2", "3", "4", "5", "6", "7", "8", "9", "A", "B", "C", "D", "E", "F",
       "G", "H", "J", "K", "M", "N", "P", "Q", "R", "S", "T", "V", "W", "X", "Y", "Z" >>

PoolPrefix(n) == SubSeq(SymbolPool, 1, n)

\* The first n - 1 symbols of the pool followed by the first again.
PoolPrefixRepeating(n) == SubSeq(SymbolPool, 1, n - 1) \o <<SymbolPool[1]>>

\* The lengths at which an alphabet with a repeated symbol is given.
DuplicateLens == {2, 16, 40, 64, MaxAlphabetLen}

ConstructorArgs ==
    {[given |-> FALSE, alphabet |-> <<>>]} \cup
    {[given |-> TRUE, alphabet |-> a] :
        a \in {HexDigits, Crockford32, Base58}
              \cup {PoolPrefix(n) : n \in 0..MaxAlphabetLen}
              \cup {PoolPrefixRepeating(n) : n \in DuplicateLens}}

\* Identifiers as the generators make them: the smallest, the largest and one
\* at the timestamp of 018f0760-4a87-...
GeneratedIds ==
    { Canonical(Pack(<<>>, <<>>, <<>>)),
      Canonical(Pack(<<19079, 1888, 399>>, BigSub1(MaxRandA), BigSub1(MaxRandB))),
      Canonical(Pack(MaxTimestamp, MaxRandA, MaxRandB)) }

\* The nil UUID, a version-4 UUID and a string that is no UUID.
NilUUID == Canonical(<<>>)
V4UUID ==
    << "c", "8", "c", "b", "3", "1", "c", "a", "-", "8", "f", "b", "7", "-", "4", "7", "6", "d",
       "-", "8", "0", "6", "a", "-", "e", "2", "1", "8", "1", "d", "c", "d", "f", "9", "8", "0" >>
NotAUUID == << "i", "n", "v", "a", "l", "i", "d", "_", "i", "d" >>

EncodeInputs ==
    GeneratedIds \cup {toUpperCase(id) : id \in GeneratedIds}
                 \cup {NilUUID, V4UUID, NotAUUID}

\* The numeral of n in the alphabet a, most significant symbol first.
Numeral(a, n) == IF Len(a) = 0 THEN <<>> ELSE EncodeLoop(n, a, <<>>)

\* The symbol of value zero, as a string; empty when there is none.
ZeroSymbol(a) == IF Len(a) = 0 THEN <<>> ELSE <<a[1]>>

\* Strings given to decode: numerals of identifiers, as they are and after a
\* zero-valued symbol; the empty string; the numerals of 2^128, of a version-4
\* UUID and of the nil UUID; a version-4 UUID string; a string with a space.
DecodeInputs(a) ==
    {Numeral(a, parseInt16(RemoveHyphens(id))) : id \in GeneratedIds}
    \cup {ZeroSymbol(a) \o Numeral(a, parseInt16(RemoveHyphens(id))) : id \in GeneratedIds}
    \cup { <<>>, ZeroSymbol(a), Numeral(a, BigShl(<<1>>, 128)),
           Numeral(a, parseInt16(RemoveHyphens(V4UUID))), V4UUID, <<"7", " ", "7">> }

\* new UUIDv7(opts): the instance under study is replaced by the new one when
\* the constructor returns.
Construct ==
    /\ pc = "idle"
    /\ UNCHANGED racer
    /\ \E arg \in ConstructorArgs :
          /\ codecCall' = [op |-> "new", arg |-> arg]
          /\ IF Truthy(arg) /\ BadLength(arg.alphabet)
             THEN /\ ret' = Thrown("alphabet: length")
                  /\ UNCHANGED <<genState, tsState, callState, now, randInc, emitted, alphabet>>
             ELSE IF Truthy(arg) /\ HasDuplicates(arg.alphabet)
             THEN /\ ret' = Thrown("alphabet: duplicates")
                  /\ UNCHANGED <<genState, tsState, callState, now, randInc, emitted, alphabet>>
             ELSE /\ alphabet' = ChosenAlphabet(arg)
                  /\ lastTimestamp' = MinusOne
                  /\ lastRandA' = Undefined
                  /\ lastRandB' = Undefined
                  /\ lastUUID' = MinusOne
                  /\ tsLastTimestamp' = MinusOne
                  /\ tsLastRandA' = Undefined
                  /\ tsLastRandB' = Undefined
                  /\ ret' = Returned("instance", <<>>)
                  /\ emitted' = <<>>
                  /\ randInc' = <<>>
                  /\ UNCHANGED <<callState, now>>

\* UUIDv7.encode(id)
Encode ==
    /\ pc = "idle"
    /\ UNCHANGED racer
    /\ \E id \in EncodeInputs :
          /\ codecCall' = [op |-> "encode", arg |-> id]
          /\ ret' = encode(alphabet, id)
    /\ UNCHANGED <<genState, tsState, callState, now, randInc, emitted, alphabet>>

\* UUIDv7.decode(encodedId)
Decode ==
    /\ pc = "idle"
    /\ UNCHANGED racer
    /\ \E s \in DecodeInputs(alphabet) :
          /\ codecCall' = [op |-> "decode", arg |-> s]
          /\ ret' = decode(alphabet, s)
    /\ UNCHANGED <<genState, tsState, callState, now, randInc, emitted, alphabet>>

\* UUIDv7.decodeOrThrow(encodedId)
DecodeOrThrow ==
    /\ pc = "idle"
    /\ UNCHANGED racer
    /\ \E s \in DecodeInputs(alphabet) :
          /\ codecCall' = [op |-> "decodeOrThrow", arg |-> s]
          /\ ret' = decodeOrThrow(alphabet, s)
    /\ UNCHANGED <<genState, tsState, callState, now, randInc, emitted, alphabet>>

----------------------------------------------------------------------------
(* The static methods isValid, timestamp and date.                         *)

\* The identifier of the timestamp test.
TestUUID ==
    << "0", "1", "8", "f", "0", "7", "6", "0", "-", "4", "a", "8", "7", "-", "7", "3", "7", "d",
       "-", "9", "8", "8", "9", "-", "b", "8", "3", "2", "d", "3", "d", "c", "c", "e", "7", "4" >>

\* 12345678-1234-1234-1234-123456789012, of version 1.
V1UUID ==
    << "1", "2", "3", "4", "5", "6", "7", "8", "-", "1", "2", "3", "4", "-", "1", "2", "3", "4",
       "-", "1", "2", "3", "4", "-", "1", "2", "3", "4", "5", "6", "7", "8", "9", "0", "1", "2" >>

\* s with its character at the 1-based position pos replaced by c.
ReplaceAt(s, pos, c) == [s EXCEPT ![pos] = c]

\* The positions of the first and last character, of the hyphens and of the
\* version and variant digits, and the characters put there.
EditPositions == {1, 9, 14, 15, 19, 20, 24, 36}
EditChars == {"g", "G", "-", "0", "6", "7", "8", "9", "a", "B", "c", "F"}

\* Strings given to the static methods: identifiers, their uppercase forms,
\* strings that are no UUIDv7, and the test identifier with one character
\* changed, one removed, one added or without its hyphens.
StaticInputs ==
    EncodeInputs \cup {TestUUID, toUpperCase(TestUUID), V1UUID, <<>>}
    \cup {ReplaceAt(TestUUID, pos, c) : pos \in EditPositions, c \in EditChars}
    \cup { SubSeq(TestUUID, 1, 35), SubSeq(TestUUID, 2, 36), TestUUID \o <<"0">>,
           <<"0">> \o TestUUID, TestUUID \o <<"\n">>, RemoveHyphens(TestUUID) }

\* UUIDv7.isValid(id)
IsValid ==
    /\ pc = "idle"
    /\ UNCHANGED racer
    /\ \E s \in StaticInputs :
          /\ codecCall' = [op |-> "isValid", arg |-> s]
          /\ ret' = Returned("boolean", <<isValid(s)>>)
    /\ UNCHANGED <<genState, tsState, callState, now, randInc, emitted, alphabet>>

\* UUIDv7.timestamp(id)
Timestamp ==
    /\ pc = "idle"
    /\ UNCHANGED racer
    /\ \E s \in StaticInputs :
          /\ codecCall' = [op |-> "timestamp", arg |-> s]
          /\ ret' = (IF timestamp(s) = Null THEN Returned("null", <<>>)
                     ELSE Returned("number", <<timestamp(s)>>))
    /\ UNCHANGED <<genState, tsState, callState, now, randInc, emitted, alphabet>>

\* UUIDv7.date(id)
Date ==
    /\ pc = "idle"
    /\ UNCHANGED racer
    /\ \E s \in StaticInputs :
          /\ codecCall' = [op |-> "date", arg |-> s]
          /\ ret' = (IF date(s) = Null THEN Returned("null", <<>>)
                     ELSE Returned("date", <<date(s)>>))
    /\ UNCHANGED <<genState, tsState, callState, now, randInc, emitted, alphabet>>

\* Timestamps of the identifiers that are compared: the ends of the range
\* and values whose hexadecimal forms differ in length.
OrderTimestamps ==
    {<<>>, <<1>>, <<15>>, <<16>>, BigShl(<<1>>, 32), MaxTimestamp}

\* The values gen packs for those timestamps and the drawn parts.
OrderValues == {Pack(t, p.randA, p.randB) : t \in OrderTimestamps, p \in RandomParts}

\* The comparison id <= arr[idx - 1] of two identifiers gen returned.
CompareIds ==
    /\ pc = "idle"
    /\ UNCHANGED racer
    /\ \E a \in OrderValues, b \in OrderValues :
          /\ codecCall' = [op |-> "compare", arg |-> <<a, b>>]
          /\ ret' = Returned("boolean", <<StringLe(Canonical(a), Canonical(b))>>)
    /\ UNCHANGED <<genState, tsState, callState, now, randInc, emitted, alphabet>>

----------------------------------------------------------------------------
(* Specifications.                                                         *)

\* An instance used with and without custom timestamps.
Next ==
    \/ gen(MaxMixed)
    \/ AttemptAhead
    \/ AttemptBehind
    \/ AttemptSame
    \/ GenReturn
    \/ genTs(MaxMixed)
    \/ genMany(MaxMixed, CustomTimestamps \cup {Undefined})
    \/ GenManyTs

Spec == Init /\ [][Next]_vars

\* The step of GenReturn, told by its guard and its write of #lastUUID.
LoopExit ==
    /\ pc \in GenPcs
    /\ ~KeepLooping(lastUUID, uuid)
    /\ lastUUID' = uuid

\* The same instance, where gen() goes on to its return statement once its
\* loop has ended.
SpecFair == Spec /\ WF_lastUUID(LoopExit)

\* An instance used without custom timestamps only.
NextClock ==
    \/ gen(MaxCalls)
    \/ AttemptAhead
    \/ AttemptBehind
    \/ AttemptSame
    \/ GenReturn
    \/ genMany(MaxCalls, {Undefined})

SpecClock == Init /\ [][NextClock]_vars

\* An instance used with custom timestamps only.
NextTs ==
    \/ genTs(MaxCalls)
    \/ genMany(MaxCalls, CustomTimestamps)
    \/ GenManyTs

SpecTs == Init /\ [][NextTs]_vars

\* Instances constructed with any alphabet and used to encode and decode.
NextCodec ==
    \/ Construct
    \/ Encode
    \/ Decode
    \/ DecodeOrThrow

SpecCodec == Init /\ [][NextCodec]_vars

\* The static methods, called with any string.
NextStatic ==
    \/ IsValid
    \/ Timestamp
    \/ Date

SpecStatic == Init /\ [][NextStatic]_vars

\* Two callers of gen() on one instance, each suspended and resumed before
\* any evaluation of the loop test and before the write of #lastUUID.
NextRace ==
    \/ gen(MaxMixed)
    \/ AttemptAhead
    \/ AttemptBehind
    \/ AttemptSame
    \/ LoopEnds
    \/ ReturnAfterLoop
    \/ Switch

SpecRace == Init /\ [][NextRace]_vars

\* Identifiers compared as strings.
NextOrder == CompareIds

SpecOrder == Init /\ [][NextOrder]_vars

----------------------------------------------------------------------------
(* Properties of the generators.                                           *)

ClockIds == {i \in 1..Len(emitted) : ~emitted[i].custom}
CustomIds == {i \in 1..Len(emitted) : emitted[i].custom}

\* C1: every value gen() returns without a custom timestamp is strictly
\* greater than every value the instance returned that way before, whatever
\* the clock reads and whatever is drawn.
C1_ClockIdsStrictlyIncrease ==
    \A i, j \in ClockIds : i < j => BigLt(emitted[i].uuid, emitted[j].uuid)

\* Three identifiers, the second in the millisecond of the first and the
\* third after both counters overflowed or the clock moved on.
C1_Witness ==
    /\ Len(emitted) = 3
    /\ ClockIds = {1, 2, 3}
    /\ emitted[1].ts = emitted[2].ts
    /\ emitted[2].ts # emitted[3].ts

\* C2: every identifier gen returns, with the clock or with a valid custom
\* timestamp, passes isValid.
C2_EveryIdIsValid ==
    /\ \A i \in 1..Len(emitted) : isValid(emitted[i].id)
    /\ \A k \in 1..Len(ret.ids) : isValid(ret.ids[k])

\* An identifier of each generator, one of them made by a counter increment
\* that overflowed rand_b.
C2_Witness ==
    /\ Len(emitted) = 2
    /\ emitted[1].ts = emitted[2].ts
    /\ emitted[1].custom = emitted[2].custom
    /\ BigAnd(emitted[1].uuid, MaxRandB) = MaxRandB
    /\ isValid(emitted[2].id)

\* C3: timestamp(id) is the timestamp the identifier was made with: the custom
\* timestamp, or the clock value read by the iteration that made it.
C3_TimestampRoundTrip ==
    \A i \in 1..Len(emitted) : timestamp(emitted[i].id) = emitted[i].ts

\* Identifiers at the smallest and at the largest timestamp, one by the clock.
C3_Witness ==
    /\ Len(emitted) = 2
    /\ emitted[1].ts = <<>>
    /\ emitted[2].ts = MaxTimestamp
    /\ ~emitted[2].custom
    /\ timestamp(emitted[2].id) = MaxTimestamp

\* C7: in a run of gen(ts) calls with one custom timestamp, each value is
\* strictly greater than the one the call before returned.
C7_SameTimestampIncreases ==
    \A i \in 1..(Len(emitted) - 1) :
        (emitted[i].custom /\ emitted[i + 1].custom /\ emitted[i].ts = emitted[i + 1].ts)
            => BigLt(emitted[i].uuid, emitted[i + 1].uuid)

\* A step of gen(customTimestamp) called on its own.
IsGenTsStep == pc = "idle" /\ pc' = "idle" /\ amount' = 1 /\ custom' # Undefined

\* C8: gen(ts) with the stored custom timestamp, when both counters overflow,
\* throws and returns no identifier.
C8_DoubleOverflowThrows ==
    [][ ( /\ IsGenTsStep
          /\ custom' = tsLastTimestamp
          /\ tsLastRandA = MaxRandA
          /\ tsLastRandB = MaxRandB )
        => (ret'.kind = "error" /\ emitted' = emitted) ]_vars

\* C9: an iteration of gen() that reads a clock value below the stored
\* timestamp changes no field and returns nothing, and no identifier has a
\* timestamp below that of an identifier gen() returned before it.
C9_ClockRegression ==
    /\ [][ (pc \in GenPcs /\ BigLt(now', lastTimestamp))
           => (pc' = pc /\ UNCHANGED <<genState, tsState, uuid, batch, ret, emitted>>) ]_vars
    /\ [](\A i, j \in ClockIds : i < j => ~BigLt(emitted[j].ts, emitted[i].ts))

\* gen() is running, an identifier was returned before, and the clock was
\* just read below the stored timestamp.
C9_Witness ==
    /\ pc \in GenPcs
    /\ Len(emitted) >= 1
    /\ BigLt(now, lastTimestamp)

\* The identifiers of the last n entries of the history, in order.
LastIds(h, n) == [k \in 1..n |-> h[Len(h) - n + k].id]

\* C10: genMany(amount) throws for amount <= 0 and then changes nothing; for
\* amount >= 1 it returns amount identifiers, those of amount gen calls in
\* call order, and without a custom timestamp they increase strictly, also
\* past the identifiers returned earlier.
C10_GenMany ==
    /\ [][ amount' <= 0
           => (ret' = Thrown("genMany") /\ pc' = "idle"
               /\ UNCHANGED <<genState, tsState, emitted>>) ]_vars
    /\ [][ (pc \in {"manyGen", "manyTs"} /\ pc' = "idle" /\ ret'.kind = "ids")
           => ( /\ amount >= 1
                /\ Len(ret'.ids) = amount
                /\ Len(emitted') >= amount
                /\ ret'.ids = LastIds(emitted', amount)
                /\ \A i, j \in 1..Len(emitted') :
                      (i < j /\ ~emitted'[i].custom /\ ~emitted'[j].custom)
                          => BigLt(emitted'[i].uuid, emitted'[j].uuid) ) ]_vars

\* genMany(2) has returned two identifiers after gen() returned one.
C10_Witness ==
    /\ ret.kind = "ids"
    /\ Len(ret.ids) = 2
    /\ Len(emitted) = 3
    /\ ClockIds = {1, 2, 3}

C15_StateWrittenOnce ==
    /\ [][ (pc \in GenPcs) =>
             /\ <<lastTimestamp, lastRandA, lastRandB>>' # <<lastTimestamp, lastRandA, lastRandB>>
                   => /\ uuid = lastUUID
                      /\ lastUUID' = lastUUID
                      /\ lastTimestamp' = now'
                      /\ uuid' = Pack(lastTimestamp', lastRandA', lastRandB')
                      /\ BigLt(lastUUID, uuid')
                      /\ emitted' = emitted
             /\ lastUUID' # lastUUID
                   => /\ lastUUID' = uuid
                      /\ uuid = Pack(lastTimestamp, lastRandA, lastRandB)
                      /\ UNCHANGED <<lastTimestamp, lastRandA, lastRandB>>
                      /\ emitted' = Append(emitted, [custom |-> FALSE, ts |-> lastTimestamp,
                                                     uuid |-> uuid, id |-> Canonical(uuid)])
             /\ (emitted' = emitted /\ ~BigLt(lastUUID', uuid'))
                   => (genState' = genState) ]_vars
    /\ []( (pc \notin GenPcs \/ uuid = lastUUID) =>
              IF lastTimestamp = MinusOne
              THEN lastUUID = MinusOne /\ lastRandA = Undefined /\ lastRandB = Undefined
              ELSE lastUUID = Pack(lastTimestamp, lastRandA, lastRandB) )

\* An attempt in the millisecond of the last identifier found both counters
\* exhausted and was abandoned: the call is still running.
C15_Witness ==
    /\ pc \in GenPcs
    /\ uuid = lastUUID
    /\ now = lastTimestamp
    /\ randInc # <<>>
    /\ lastRandA = MaxRandA
    /\ Len(emitted) >= 1

\* The last attempt of the running gen() read the stored timestamp and found
\* both counters exhausted: rand_b overflowed and rand_a was at its maximum.
ExhaustedAttempt ==
    /\ pc \in GenPcs
    /\ uuid = lastUUID
    /\ randInc # <<>>
    /\ now = lastTimestamp
    /\ lastRandA = MaxRandA
    /\ BigLt(MaxRandB, BigAdd(lastRandB, randInc))

\* C16: once an attempt of gen() at the stored timestamp has found both
\* counters exhausted, the call returns no identifier for that millisecond:
\* the attempt returns nothing, and the attempt that is accepted after it has a
\* timestamp above the stored one and newly drawn rand_a and rand_b.
C16_ExhaustedWaitsForNextMs ==
    [][ ExhaustedAttempt =>
          /\ emitted' = emitted
          /\ uuid' # uuid =>
                /\ BigLt(lastTimestamp, lastTimestamp')
                /\ [randA |-> lastRandA', randB |-> lastRandB'] \in RandomParts ]_vars

\* A step of gen() that is an attempt at the stored timestamp.
IsSameMsAttempt ==
    /\ pc \in GenPcs
    /\ BigLe(uuid, lastUUID)
    /\ emitted' = emitted
    /\ now' = lastTimestamp

\* C17: an attempt of gen() at the stored timestamp whose increment does not
\* overflow is accepted with rand_a = lastRandA and rand_b = lastRandB + r for
\* a drawn r with 1 <= r <= 2^32: the new rand_b is above lastRandB and at
\* most 2^62-1.
C17_IncrementWithoutOverflow ==
    [][ (IsSameMsAttempt /\ ~BigLt(BigSub1(BigShl(<<1>>, 62)), BigAdd(lastRandB, randInc')))
        => /\ BigLe(<<1>>, randInc') /\ BigLe(randInc', BigShl(<<1>>, 32))
           /\ lastRandA' = lastRandA
           /\ lastRandB' = BigAdd(lastRandB, randInc')
           /\ BigLt(lastRandB, lastRandB') /\ BigLe(lastRandB', BigSub1(BigShl(<<1>>, 62)))
           /\ lastTimestamp' = lastTimestamp
           /\ uuid' = Pack(lastTimestamp, lastRandA, lastRandB')
           /\ BigLt(lastUUID, uuid') ]_vars

\* An attempt in the millisecond of an identifier with rand_b = 0 was accepted
\* with the largest increment, 2^32.
C17_Witness ==
    /\ pc \in GenPcs
    /\ uuid # lastUUID
    /\ now = lastTimestamp
    /\ randInc = BigShl(<<1>>, 32)
    /\ lastRandB = BigShl(<<1>>, 32)
    /\ Len(emitted) >= 1

\* A step in which gen(customTimestamp) returns an identifier made at the
\* stored custom timestamp.
IsSameTsEmission ==
    /\ pc \in {"idle", "manyTs"}
    /\ Len(emitted') = Len(emitted) + 1
    /\ emitted'[Len(emitted')].custom
    /\ custom' = tsLastTimestamp

\* The rand_b values the random source can give.
DrawnRandBs == {p.randB : p \in RandomParts}

\* C18: in both generators, when the timestamp is the stored one, rand_b plus
\* the increment exceeds 2^62-1 and rand_a is below 2^12-1, the identifier
\* carries rand_a + 1 and a newly drawn rand_b of at most 2^62-1, and is
\* strictly greater than the identifier before it.
C18_RandBOverflowCarries ==
    /\ [][ ( /\ IsSameMsAttempt
             /\ BigLt(BigSub1(BigShl(<<1>>, 62)), BigAdd(lastRandB, randInc'))
             /\ BigLt(lastRandA, BigSub1(BigShl(<<1>>, 12))) )
           => /\ lastRandA' = BigAdd(lastRandA, <<1>>)
              /\ lastRandB' \in DrawnRandBs
              /\ BigLe(lastRandB', BigSub1(BigShl(<<1>>, 62)))
              /\ lastTimestamp' = lastTimestamp
              /\ uuid' = Pack(lastTimestamp, lastRandA', lastRandB')
              /\ BigLt(lastUUID, uuid') ]_vars
    /\ [][ ( /\ IsSameTsEmission
             /\ BigLt(BigSub1(BigShl(<<1>>, 62)), BigAdd(tsLastRandB, randInc'))
             /\ BigLt(tsLastRandA, BigSub1(BigShl(<<1>>, 12))) )
           => /\ tsLastRandA' = BigAdd(tsLastRandA, <<1>>)
              /\ tsLastRandB' \in DrawnRandBs
              /\ BigLe(tsLastRandB', BigSub1(BigShl(<<1>>, 62)))
              /\ emitted'[Len(emitted')].uuid = Pack(custom', tsLastRandA', tsLastRandB')
              /\ BigLt(Pack(tsLastTimestamp, tsLastRandA, tsLastRandB),
                       emitted'[Len(emitted')].uuid) ]_vars

\* gen(ts) has returned an identifier with rand_a = 0xfff after one with the
\* same timestamp, rand_a = 0xffe and rand_b = 2^62-2, the increment being
\* 2^32.
C18_Witness ==
    /\ Len(emitted) >= 2
    /\ emitted[Len(emitted)].custom /\ emitted[Len(emitted) - 1].custom
    /\ emitted[Len(emitted)].ts = emitted[Len(emitted) - 1].ts
    /\ emitted[Len(emitted) - 1].uuid
          = Pack(emitted[Len(emitted)].ts, BigSub1(MaxRandA), BigSub1(MaxRandB))
    /\ randInc = BigShl(<<1>>, 32)
    /\ tsLastRandA = MaxRandA
    /\ emitted[Len(emitted)].uuid = Pack(tsLastTimestamp, tsLastRandA, tsLastRandB)

\* A step that is one call of TimestampUUIDv7.gen with a timestamp in range.
IsValidTsCall ==
    /\ \/ IsGenTsStep
       \/ pc = "manyTs"
    /\ ~BigLt(custom', <<>>)
    /\ BigLe(custom', BigSub1(BigShl(<<1>>, 48)))

IsCustomStep == pc \in {"idle", "manyTs"} /\ custom' # Undefined

\* A step of a call that was given none.
IsClockStep == pc \in GenPcs \/ (pc = "idle" /\ custom' = Undefined)

\* The largest element of a non-empty set of indices.
Latest(S) == CHOOSE i \in S : \A j \in S : j <= i

\* The outcome of a loop pass of gen(), from the clock value read, the
\* increment drawn and the clock-driven fields alone.
ClockPassFromOwnFields ==
    LET inc == BigAdd(lastRandB, randInc')
        packed == uuid' = Pack(now', lastRandA', lastRandB')
    IN  IF BigLt(lastTimestamp, now')
        THEN /\ [randA |-> lastRandA', randB |-> lastRandB'] \in RandomParts
             /\ lastTimestamp' = now'
             /\ packed
        ELSE IF BigLt(now', lastTimestamp)
        THEN genState' = genState /\ uuid' = uuid
        ELSE IF BigLe(inc, BigSub1(BigShl(<<1>>, 62)))
        THEN /\ lastRandA' = lastRandA
             /\ lastRandB' = inc
             /\ lastTimestamp' = now'
             /\ packed
        ELSE IF BigLt(lastRandA, BigSub1(BigShl(<<1>>, 12)))
        THEN /\ lastRandA' = BigAdd(lastRandA, <<1>>)
             /\ lastRandB' \in DrawnRandBs
             /\ lastTimestamp' = now'
             /\ packed
        ELSE genState' = genState /\ uuid' = uuid

\* The identifier gen(ts) returns, from ts, the increment drawn and the
\* fixed-timestamp fields alone.
CustomIdFromOwnFields ==
    LET inc == BigAdd(tsLastRandB, randInc')
    IN  /\ emitted'[Len(emitted')].custom
        /\ emitted'[Len(emitted')].uuid = Pack(custom', tsLastRandA', tsLastRandB')
        /\ tsLastTimestamp' = custom'
        /\ IF custom' # tsLastTimestamp
           THEN [randA |-> tsLastRandA', randB |-> tsLastRandB'] \in RandomParts
           ELSE IF BigLe(inc, BigSub1(BigShl(<<1>>, 62)))
           THEN tsLastRandA' = tsLastRandA /\ tsLastRandB' = inc
           ELSE /\ tsLastRandB' \in DrawnRandBs
                /\ \/ tsLastRandA' = BigAdd(tsLastRandA, <<1>>)
                   \/ tsLastRandA' \in {q.randA : q \in RandomParts}

\* C20: a call with a custom timestamp leaves the four clock-driven fields
\* as they are and a call without one leaves the three fixed-timestamp
\* fields as they are; what either call computes follows from its own
\* fields and inputs; so, however the calls interleave, the clock-driven
\* fields stay those of the last identifier returned without a custom
\* timestamp and the fixed-timestamp fields those of the last one returned
\* with one.
C20_IndependentStates ==
    /\ [][ IsCustomStep => (genState' = genState) ]_vars
    /\ [][ IsClockStep => (tsState' = tsState) ]_vars
    /\ [][ (pc \in GenPcs /\ emitted' = emitted /\ pc' = pc)
           => ClockPassFromOwnFields ]_vars
    /\ [][ (IsCustomStep /\ Len(emitted') = Len(emitted) + 1)
           => CustomIdFromOwnFields ]_vars
    /\ [](IF ClockIds = {}
          THEN lastUUID = MinusOne
          ELSE lastUUID = emitted[Latest(ClockIds)].uuid)
    /\ [](IF CustomIds = {}
          THEN tsLastTimestamp = MinusOne
          ELSE emitted[Latest(CustomIds)].uuid
                   = Pack(tsLastTimestamp, tsLastRandA, tsLastRandB))

\* gen(ts) has returned an identifier with newly drawn parts for the very
\* timestamp gen() stored just before, and the clock-driven fields are still
\* those of the identifier gen() returned.
C20_Witness ==
    /\ pc = "idle"
    /\ Len(emitted) = 2
    /\ ~emitted[1].custom
    /\ emitted[2].custom
    /\ emitted[2].ts = lastTimestamp
    /\ tsLastTimestamp = lastTimestamp
    /\ lastUUID = emitted[1].uuid
    /\ emitted[1].uuid = Pack(lastTimestamp, lastRandA, lastRandB)
    /\ <<tsLastRandA, tsLastRandB>> # <<lastRandA, lastRandB>>

\* gen(ts) returns an identifier in this step.
IsCustomEmission == IsCustomStep /\ Len(emitted') = Len(emitted) + 1

\* C21: a gen(ts) that returns an identifier stores ts and the rand_a and
\* rand_b of that identifier; when ts is not the stored custom timestamp the
\* two are a new draw and no increment is made; when ts is the stored one
\* they continue the stored counters, rand_b by the increment or, when that
\* overflows, rand_a by one with a new rand_b, and are never a new draw of
\* both.
C21_FreshExactlyOnNewTimestamp ==
    [][ IsCustomEmission
        => /\ tsLastTimestamp' = custom'
           /\ emitted'[Len(emitted')].ts = custom'
           /\ emitted'[Len(emitted')].uuid = Pack(custom', tsLastRandA', tsLastRandB')
           /\ IF custom' # tsLastTimestamp
              THEN /\ [randA |-> tsLastRandA', randB |-> tsLastRandB'] \in RandomParts
                   /\ randInc' = <<>>
              ELSE /\ BigLt(<<>>, randInc')
                   /\ BigLe(randInc', BigShl(<<1>>, 32))
                   /\ IF BigLe(BigAdd(tsLastRandB, randInc'), BigSub1(BigShl(<<1>>, 62)))
                      THEN /\ tsLastRandA' = tsLastRandA
                           /\ tsLastRandB' = BigAdd(tsLastRandB, randInc')
                      ELSE /\ tsLastRandA' = BigAdd(tsLastRandA, <<1>>)
                           /\ tsLastRandB' \in DrawnRandBs ]_vars

\* Two of the identifiers returned are equal or out of order.
OutOfOrder ==
    \E i, j \in 1..Len(emitted) : i < j /\ BigLe(emitted[j].uuid, emitted[i].uuid)

\* C24: as long as every gen() call of two callers ran from its start to its
\* return with the other caller not inside a call, the identifiers returned
\* are strictly increasing; when the calls interleave, two identifiers that
\* are equal or out of order can be returned.
C24_AtomicCallsStayOrdered == ~racer.interleaved => ~OutOfOrder

\* Two callers whose calls interleaved have got identifiers that are equal or
\* out of order.
C24_Witness == racer.interleaved /\ OutOfOrder

\* C25: whenever no call is running and gen() has returned before, #lastUUID
\* is the packing of #lastTimestamp, #lastRandA and #lastRandB, with
\* 0 <= #lastRandA <= 2^12-1 and 0 <= #lastRandB <= 2^62-1; every loop pass
\* that packs a value packs one above #lastUUID; and a call that has packed
\* a value runs no further pass: its next step is its return.
C25_PackedAboveLastEmitted ==
    /\ []( (pc = "idle" /\ ClockIds # {})
           => /\ lastUUID = Pack(lastTimestamp, lastRandA, lastRandB)
              /\ lastUUID = emitted[Latest(ClockIds)].uuid
              /\ BigLe(<<>>, lastRandA) /\ BigLe(lastRandA, BigSub1(BigShl(<<1>>, 12)))
              /\ BigLe(<<>>, lastRandB) /\ BigLe(lastRandB, BigSub1(BigShl(<<1>>, 62))) )
    /\ [][ (pc \in GenPcs /\ uuid' # uuid /\ emitted' = emitted)
           => /\ uuid' = Pack(lastTimestamp', lastRandA', lastRandB')
              /\ BigLt(lastUUID, uuid')
              /\ ~KeepLooping(lastUUID', uuid') ]_vars
    /\ [][ (pc \in GenPcs /\ BigLt(lastUUID, uuid))
           => (Len(emitted') = Len(emitted) + 1 /\ lastUUID' = uuid) ]_vars

\* gen() has returned a second identifier for the millisecond of the first,
\* and the fields are those of that identifier.
C25_Witness ==
    /\ pc = "idle"
    /\ Len(emitted) = 2
    /\ ClockIds = {1, 2}
    /\ emitted[1].ts = emitted[2].ts
    /\ lastUUID = emitted[2].uuid
    /\ lastUUID = Pack(lastTimestamp, lastRandA, lastRandB)

\* C26: with clock values and custom timestamps of 0 or more, each generator
\* has its rand_a and rand_b set exactly when its stored timestamp is no
\* longer -1; a pass or call whose timestamp is the stored one finds them
\* set; the first pass or call on a new instance reads a timestamp above -1,
\* takes newly drawn parts and draws no increment; and no call fails on a
\* field that was not set.
C26_IncrementOnlyAfterInitialised ==
    /\ []( /\ lastTimestamp = MinusOne <=> lastRandA = Undefined
           /\ lastTimestamp = MinusOne <=> lastRandB = Undefined
           /\ tsLastTimestamp = MinusOne <=> tsLastRandA = Undefined
           /\ tsLastTimestamp = MinusOne <=> tsLastRandB = Undefined
           /\ ret # Thrown("TypeError") )
    /\ [][ (pc \in GenPcs /\ emitted' = emitted /\ now' = lastTimestamp)
           => (lastRandA # Undefined /\ lastRandB # Undefined) ]_vars
    /\ [][ (IsCustomEmission /\ custom' = tsLastTimestamp)
           => (tsLastRandA # Undefined /\ tsLastRandB # Undefined) ]_vars
    /\ [][ (pc \in GenPcs /\ lastTimestamp = MinusOne)
           => /\ BigLt(lastTimestamp, now')
              /\ [randA |-> lastRandA', randB |-> lastRandB'] \in RandomParts
              /\ randInc' = <<>> ]_vars
    /\ [][ (IsCustomEmission /\ tsLastTimestamp = MinusOne)
           => /\ custom' # tsLastTimestamp
              /\ [randA |-> tsLastRandA', randB |-> tsLastRandB'] \in RandomParts
              /\ randInc' = <<>> ]_vars

\* The first gen() and the first gen(ts) of a new instance have both returned
\* an identifier with timestamp 0 and drawn parts.
C26_Witness ==
    /\ pc = "idle"
    /\ Len(emitted) = 2
    /\ ClockIds = {1}
    /\ CustomIds = {2}
    /\ emitted[1].ts = <<>>
    /\ emitted[2].ts = <<>>
    /\ [randA |-> lastRandA, randB |-> lastRandB] \in RandomParts
    /\ [randA |-> tsLastRandA, randB |-> tsLastRandB] \in RandomParts

----------------------------------------------------------------------------
(* Encoding and decoding.                                                  *)

DecodeOps == {"decode", "decodeOrThrow"}

\* A step that decodes, with either method, the string the encode call before
\* it returned, under an alphabet of 16 to 64 symbols.
IsRoundTripStep ==
    /\ codecCall.op = "encode"
    /\ ret.kind = "encoded"
    /\ Len(alphabet) >= 16 /\ Len(alphabet) <= 64
    /\ codecCall'.op \in DecodeOps
    /\ codecCall'.arg = ret.ids[1]

\* C4 as stated: for every identifier x that passes isValid and every accepted
\* alphabet, decode(encode(x)) and decodeOrThrow(encode(x)) return x itself.
C4_RoundTripReturnsInput ==
    [][ IsRoundTripStep => ret' = Returned("decoded", <<codecCall.arg>>) ]_vars

\* C4 as amended: for every identifier x that passes isValid and every accepted
\* alphabet, encode(x) succeeds and decode(encode(x)) and
\* decodeOrThrow(encode(x)) return x with its hex digits in lowercase, which is
\* x itself when x has no uppercase digit.
C4_RoundTripLowercase ==
    /\ [][ IsRoundTripStep => ret' = Returned("decoded", <<toLowerCase(codecCall.arg)>>) ]_vars
    /\ []( ( /\ codecCall.op = "encode" /\ isValid(codecCall.arg)
             /\ Len(alphabet) >= 16 /\ Len(alphabet) <= 64 )
           => ret.kind = "encoded" )

\* An identifier with leading zero digits came back from the encoding under a
\* 16-symbol and an uppercase one from the encoding under a 64-symbol alphabet.
C4_Witness ==
    /\ codecCall.op \in DecodeOps
    /\ ret.kind = "decoded"
    /\ \/ Len(alphabet) = 16 /\ ret.ids[1][1] = "0" /\ Len(codecCall.arg) < 32
       \/ Len(alphabet) = 64 /\ ret.ids[1][1] = "f"

\* C5: decode returns null exactly when decodeOrThrow of the same string
\* throws and otherwise both return the same string; both fail when the
\* string has a character outside the alphabet or the accumulated integer does
\* not render to a string that passes isValid, as for every integer of 2^128
\* or more; every string they return passes isValid.
C5_DecodeFailure ==
    /\ [][ ( /\ codecCall.op = "decode" /\ codecCall'.op = "decodeOrThrow"
             /\ codecCall'.arg = codecCall.arg )
           => /\ ret.kind = "null" <=> ret'.kind = "error"
              /\ ret.kind # "null" => (ret.kind = "decoded" /\ ret' = ret) ]_vars
    /\ []( codecCall.op \in DecodeOps =>
            LET failed == ret.kind = (IF codecCall.op = "decode" THEN "null" ELSE "error")
                s == codecCall.arg
                foreign == \E i \in 1..Len(s) : \A k \in 1..Len(alphabet) : alphabet[k] # s[i]
                n == DecodeLoop(s, 0, <<>>, alphabet).n
            IN  /\ ret.kind \in {"decoded", "null", "error"}
                /\ foreign => failed
                /\ (~foreign /\ ~isValid(Canonical(n))) => failed
                /\ (~foreign /\ ~BigLt(n, BigShl(<<1>>, 128))) => failed
                /\ ~failed => (ret.kind = "decoded" /\ isValid(ret.ids[1])) )

\* decode returned null for the numeral of 2^128, whose characters are all in
\* the alphabet.
C5_Witness ==
    /\ codecCall.op = "decode"
    /\ ret.kind = "null"
    /\ Len(alphabet) >= 16
    /\ codecCall.arg = Numeral(alphabet, BigShl(<<1>>, 128))

\* C6: construction with a supplied alphabet fails exactly when the alphabet
\* has fewer than 16 symbols (none included) or more than 64 or has a repeated
\* symbol, and otherwise gives an instance that uses the alphabet.
C6_AlphabetValidation ==
    (codecCall.op = "new" /\ codecCall.arg.given) =>
        LET a == codecCall.arg.alphabet
            bad == \/ Len(a) < 16
                   \/ Len(a) > 64
                   \/ \E i, j \in 1..Len(a) : i < j /\ a[i] = a[j]
        IN  /\ ret.kind = "error" <=> bad
            /\ ~bad => (ret.kind = "instance" /\ alphabet = a)

\* C12: encode(id) throws for every id that does not pass isValid and returns
\* no encoding for it; for every id that passes isValid it returns a string
\* made only of symbols of the alphabet of the instance.
C12_EncodeValidation ==
    codecCall.op = "encode" =>
        IF isValid(codecCall.arg)
        THEN /\ ret.kind = "encoded"
             /\ \A i \in 1..Len(ret.ids[1]) :
                   \E k \in 1..Len(alphabet) : alphabet[k] = ret.ids[1][i]
        ELSE ret.kind = "error" /\ ret.ids = <<>>

----------------------------------------------------------------------------
(* The static methods.                                                     *)

\* The parts of s between its hyphens.
RECURSIVE SplitOnHyphen(_)
SplitOnHyphen(s) ==
    IF \A i \in 1..Len(s) : s[i] # "-" THEN <<s>>
    ELSE LET h == CHOOSE i \in 1..Len(s) : s[i] = "-" /\ \A j \in 1..(i - 1) : s[j] # "-"
         IN  <<SubSeq(s, 1, h - 1)>> \o SplitOnHyphen(SubSeq(s, h + 1, Len(s)))

HexEitherCase ==
    {"0", "1", "2", "3", "4", "5", "6", "7", "8", "9",
     "a", "b", "c", "d", "e", "f", "A", "B", "C", "D", "E", "F"}

\* s is five groups of 8, 4, 4, 4 and 12 hex digits between hyphens, the third
\* starting with 7 and the fourth with 8, 9, a or b in either case.
IsUUIDv7Shape(s) ==
    LET g == SplitOnHyphen(s)
    IN  /\ Len(g) = 5
        /\ <<Len(g[1]), Len(g[2]), Len(g[3]), Len(g[4]), Len(g[5])>> = <<8, 4, 4, 4, 12>>
        /\ \A k \in 1..5 : \A i \in 1..Len(g[k]) : g[k][i] \in HexEitherCase
        /\ g[3][1] = "7"
        /\ g[4][1] \in {"8", "9", "a", "b", "A", "B"}

\* C13: isValid(s) is true exactly when s has the 8-4-4-4-12 shape of hex
\* digits of either case with version digit 7 and variant digit 8, 9, a or b;
\* the all-zero UUID, a version-4 UUID and a string that is no UUID are
\* rejected and the uppercase form of a generated id is accepted.
C13_IsValidShape ==
    codecCall.op = "isValid" =>
        /\ ret = Returned("boolean", <<IsUUIDv7Shape(codecCall.arg)>>)
        /\ codecCall.arg \in {NilUUID, V4UUID, NotAUUID} => ret.ids[1] = FALSE
        /\ codecCall.arg \in {toUpperCase(id) : id \in GeneratedIds} => ret.ids[1] = TRUE

\* isValid has accepted an identifier written with uppercase letters.
C13_Witness ==
    /\ codecCall.op = "isValid"
    /\ codecCall.arg = toUpperCase(TestUUID)
    /\ codecCall.arg # TestUUID
    /\ ret.ids = <<TRUE>>

\* The number the first n of the digits write in the given base.
RECURSIVE PositionalValue(_, _, _)
PositionalValue(digits, n, base) ==
    IF n = 0 THEN <<>>
    ELSE BigMulAdd(PositionalValue(digits, n - 1, base), base, digits[n])

\* The values of the first twelve hex digits of a string of the UUID shape.
TopDigits(s) ==
    [i \in 1..12 |->
        LET c == s[IF i <= 8 THEN i ELSE i + 1]
        IN  CHOOSE v \in 0..15 : c = HexDigits[v + 1] \/ c = UpperHexDigits[v + 1]]

\* 1713815702151
TestTimestamp == PositionalValue(<<1, 7, 1, 3, 8, 1, 5, 7, 0, 2, 1, 5, 1>>, 13, 10)

\* C14: timestamp(s) and date(s) return null exactly when isValid(s) is false;
\* otherwise timestamp(s) is the number the first 12 hex digits of s write and
\* date(s) is the date of that millisecond; the test identifier gives
\* 1713815702151.
C14_TimestampAndDate ==
    codecCall.op \in {"timestamp", "date"} =>
        /\ ret.kind = "null" <=> ~isValid(codecCall.arg)
        /\ isValid(codecCall.arg) =>
              ret = Returned(IF codecCall.op = "date" THEN "date" ELSE "number",
                             <<PositionalValue(TopDigits(codecCall.arg), 12, 16)>>)
        /\ codecCall.arg = TestUUID => ret.ids = <<TestTimestamp>>

\* date has returned the date of 1713815702151 for the test identifier.
C14_Witness ==
    /\ codecCall.op = "date"
    /\ codecCall.arg = TestUUID
    /\ ret = Returned("date", << <<19079, 1888, 399>> >>)

----------------------------------------------------------------------------
(* The order of identifiers as strings.                                    *)

\* The two values of the last comparison.
ComparedA == codecCall.arg[1]
ComparedB == codecCall.arg[2]

\* s is 32 lowercase hexadecimal digits with hyphens after the 8th, 12th,
\* 16th and 20th.
IsCanonicalForm(s) ==
    /\ Len(s) = 36
    /\ \A i \in 1..36 :
          IF i \in {9, 14, 19, 24}
          THEN s[i] = "-"
          ELSE \E d \in 1..16 : HexDigits[d] = s[i]

\* C22: for two values packed with timestamps in 0..2^48-1, each canonical
\* string is its value in 32 lowercase hexadecimal digits, padded with zeros
\* on the left, with the hyphens at their fixed places, and the first value
\* is below the second exactly when its string is below the second's.
C22_StringOrderIsNumericOrder ==
    codecCall.op = "compare"
    => /\ IsCanonicalForm(Canonical(ComparedA))
       /\ IsCanonicalForm(Canonical(ComparedB))
       /\ parseInt16(RemoveHyphens(Canonical(ComparedA))) = ComparedA
       /\ BigLt(ComparedA, ComparedB)
             <=> StringLt(Canonical(ComparedA), Canonical(ComparedB))
       /\ ret.ids[1] <=> BigLe(ComparedA, ComparedB)

\* Two identifiers were compared whose timestamps 1 and 16 differ in the
\* length of their hexadecimal forms.
C22_Witness ==
    /\ codecCall.op = "compare"
    /\ ComparedA = Pack(<<16>>, <<>>, <<>>)
    /\ ComparedB = Pack(<<1>>, BigOnes(12), BigOnes(62))
    /\ ret.ids[1] = FALSE

----------------------------------------------------------------------------
(* Numerals.                                                               *)

\* The number the symbols of s from the i-th on write in the alphabet a after
\* the number n, in base Len(a), most significant symbol first.
RECURSIVE NumeralValueFrom(_, _, _, _)
NumeralValueFrom(s, a, i, n) ==
    IF i > Len(s) THEN n
    ELSE LET next == BigMulAdd(n, Len(a), IndexOf(a, s[i]))
         IN  IF Len(next) >= 0 THEN NumeralValueFrom(s, a, i + 1, next) ELSE next

\* The number the string s writes in the alphabet a.
NumeralValue(s, a) == NumeralValueFrom(s, a, 1, <<>>)

\* C23: on every instance the constructor gave, encode of an identifier that
\* passes isValid returns the numeral of the identifier's value in the base
\* and symbols of the alphabet: a string that is not empty, does not start
\* with the first symbol of the alphabet, writes the value, and has at most
\* 32 symbols, one for each division of the loop.
C23_EncodeNumeral ==
    (codecCall.op = "encode" /\ isValid(codecCall.arg)) =>
        /\ ret.kind = "encoded"
        /\ LET s == ret.ids[1]
           IN  /\ Len(s) > 0
               /\ Len(s) <= 32
               /\ \A i \in 1..Len(s) : IndexOf(alphabet, s[i]) >= 0
               /\ s[1] # alphabet[1]
               /\ NumeralValue(s, alphabet) = parseInt16(RemoveHyphens(codecCall.arg))

\* Up to this many copies of the first symbol are put before a string.
MaxZeros == 2

\* C27: when decode or decodeOrThrow returns an identifier for a string, both
\* return the same identifier for the string with one or more copies of the
\* first symbol of the alphabet before it, and encode of the identifier is
\* the string exactly when the string does not start with that symbol.
C27_LeadingZerosIgnored ==
    (codecCall.op \in DecodeOps /\ ret.kind = "decoded") =>
        LET s == codecCall.arg
            id == ret.ids[1]
            back == encode(alphabet, id)
        IN  /\ Len(s) > 0
            /\ \A k \in 1..MaxZeros :
                  /\ decodeOrThrow(alphabet, Rep(alphabet[1], k) \o s)
                        = Returned("decoded", <<id>>)
                  /\ decode(alphabet, Rep(alphabet[1], k) \o s)
                        = Returned("decoded", <<id>>)
            /\ back.kind = "encoded"
            /\ back.ids[1] = s <=> s[1] # alphabet[1]

\* decode has returned an identifier for a string that starts with the first
\* symbol of the alphabet, and encode of the identifier is the rest of the
\* string.
C27_Witness ==
    /\ codecCall.op = "decode"
    /\ ret.kind = "decoded"
    /\ codecCall.arg[1] = alphabet[1]
    /\ encode(alphabet, ret.ids[1]) = Returned("encoded", <<Tail(codecCall.arg)>>)

====
